---------------------------- MODULE Spec2Model ----------------------------
(***************************************************************************)
(* Model of distcopy: the broadcast / scatter / gather drivers of          *)
(* distcopy/__main__.py and the command server of distcopy/server.py.      *)
(*                                                                         *)
(* Four specifications share this module, one per part of the program:    *)
(*   SpecBroadcast  broadcast()                                            *)
(*   SpecServer     Server.start() / Server.handle_client()                *)
(*   SpecFile       scatter() and gather() on a single file                *)
(*   SpecFolder     scatter() and gather() on a directory tree             *)
(* Each specification moves only its own variables; the others stay at     *)
(* their idle values.  Two more put parts side by side:                    *)
(*   SpecDrivers    one invocation of broadcast, scatter or gather         *)
(*   SpecRounds     the three loops that work in rounds of transfers       *)
(***************************************************************************)
EXTENDS Integers, Sequences, FiniteSets, TLC

VARIABLES
    \* ---- broadcast() ----
    bpc,            \* position in broadcast(): start, loop, wait, done, failed, cfgerror
    bNSrc,          \* number of rows with direction == "source"
    bNDst,          \* number of rows with direction == "destination"
    sources,        \* the `sources` frame, as a sequence of row ids
    destinations,   \* the `destinations` frame, as a sequence of row ids
    futures,        \* the round's futures: [src, dst, state, srcHeld]
    content,        \* row id -> what the row's path holds (0: not a copy of any source)
    rounds,         \* iterations of the while loop started so far
    issued,         \* destination row -> [round, state] of the copy_rsync submitted for it
    \* ---- Server ----
    token,          \* self.token
    server,         \* self.server: "none", "serving", "closed"
    conn,           \* connection -> "idle", "open", "closed", "raised", "refused"
    req,            \* connection -> the request it carried (NoReq until handled)
    resp,           \* connection -> the response written, a set of <<field, value>>
    executed,       \* connection -> the command its handler ran
    openAtKill,     \* connections open when server.close() first ran
    log,            \* connection -> the calls its handler made, in program order
    \* ---- scatter() / gather() on a file ----
    spc,            \* position in scatter(): start, loop, wait, done, failed, raised, cfgerror
    gpc,            \* position in gather(): idle, rm, loop, folder, done, failed, cfgerror
    fNSrc,          \* number of source rows of the scatter configuration
    rows,           \* the destination rows, in configuration order: [from, to]
    dfile,          \* destination row -> the lines of the file at its path
    target,         \* the lines of the file at the gather source row's path
    targetIsFile,   \* that path is a regular file
    ffutures,       \* the futures of the scatter round: "running", "ok", "error"
    fdst,           \* the destination row the scatter loop is at
    gdst,           \* the destination row the gather loop is at
    removed,        \* what remove_file returned: "notrun", "ok", "error"
    scalls,         \* the remote commands scatter() has issued: [op, src, dst, state]
    gcalls,         \* the remote commands gather() has issued: [op, dst, state]
    gNSrc,          \* number of source rows of the gather configuration
    \* ---- scatter() / gather() on a directory ----
    dspc,           \* position in scatter(): start, list, loop, wait, done, failed, raised, cfgerror
    dgpc,           \* position in gather(): idle, loop, done, failed, cfgerror
    dNSrc,          \* number of source rows of the scatter configuration
    drows,          \* the destination rows, in configuration order: [from, to]
    all_files,      \* scatter_folder's sorted listing of the first source
    dtree,          \* destination row -> the files under its path
    ttree,          \* the files under the gather source row's path
    ttree0,         \* the files under that path before anything ran
    dfutures,       \* the futures of the scatter batch: [dst, state]
    destinations_offset,  \* scatter_folder's loop variable
    dgdst,          \* the destination row gather_folder's loop is at
    dscalls,        \* the remote commands scatter() has issued: [op, src, dst, state, ...]
    dgcalls,        \* the remote commands gather() has issued: [op, src, dst, state]
    dgNSrc          \* number of source rows of the gather configuration

bvars == <<bpc, bNSrc, bNDst, sources, destinations, futures, content, rounds, issued>>
svars == <<token, server, conn, req, resp, executed, openAtKill, log>>
fvars == <<spc, gpc, fNSrc, rows, dfile, target, targetIsFile, ffutures, fdst, gdst, removed,
           scalls, gcalls, gNSrc>>
dvars == <<dspc, dgpc, dNSrc, drows, all_files, dtree, ttree, ttree0, dfutures,
           destinations_offset, dgdst, dscalls, dgcalls, dgNSrc>>
vars == <<bvars, svars, fvars, dvars>>

Min(a, b) == IF a < b THEN a ELSE b

Max(a, b) == IF a < b THEN b ELSE a

(***************************************************************************)
(* Bounds of the model.                                                    *)
(***************************************************************************)
MaxSrc == 2

MaxDst == 7

MaxConn == 2

MaxFSrc == 2

MaxFDst == 2

MaxLines == 2

MaxFiles == 2

(***************************************************************************)
(*                               broadcast()                               *)
(***************************************************************************)

\* Row ids: the source rows come first, then the destination rows.
SourceRows == 1..bNSrc

DestinationRows == (bNSrc + 1)..(bNSrc + bNDst)

\* content value of a path that holds no copy of any source
NoCopy == 0

\* config[config["direction"] == "source"]
InitialSources == [i \in 1..bNSrc |-> i]

\* config[config["direction"] == "destination"]
InitialDestinations == [i \in 1..bNDst |-> bNSrc + i]

\* destinations[:len(sources)] has this many rows
RoundSize(srcs, dsts) == Min(Len(srcs), Len(dsts))

\* the futures submitted by one pass of the for loop: the i-th of the first
\* len(sources) destinations is paired with sources.iloc[i]
SubmitRound(srcs, dsts) ==
    [i \in 1..RoundSize(srcs, dsts) |->
        [src |-> srcs[i], dst |-> dsts[i], state |-> "running",
         srcHeld |-> content[srcs[i]]]]

\* some future.result() carries "error": RuntimeError is raised
RoundFailedIgnored(fs) == FALSE

RoundFailed(fs) == \E i \in 1..Len(fs) : fs[i].state = "error"

\* leaving the `with ThreadPoolExecutor()` block waits for every future
RoundFinishedNoWait(fs) == TRUE

RoundFinished(fs) == \A i \in 1..Len(fs) : fs[i].state /= "running"

\* sources = pd.concat([sources, destinations[:len(futures)]])
NextSourcesNoGrow(srcs, dsts, n) == srcs

NextSources(srcs, dsts, n) == srcs \o SubSeq(dsts, 1, n)

\* destinations = destinations.iloc[len(futures):]
NextDestinations(dsts, n) == SubSeq(dsts, n + 1, Len(dsts))

BInit ==
    /\ bpc = "start"
    /\ bNSrc \in 0..MaxSrc
    /\ bNDst \in 0..MaxDst
    /\ sources = InitialSources
    /\ destinations = InitialDestinations
    /\ futures = <<>>
    /\ content = [r \in 1..(bNSrc + bNDst) |-> IF r <= bNSrc THEN r ELSE NoCopy]
    /\ rounds = 0
    /\ issued = [d \in DestinationRows |-> [round |-> 0, state |-> "none"]]

BIdle ==
    /\ bpc = "idle"
    /\ bNSrc = 0
    /\ bNDst = 0
    /\ sources = <<>>
    /\ destinations = <<>>
    /\ futures = <<>>
    /\ content = <<>>
    /\ rounds = 0
    /\ issued = <<>>

\* the two len() checks that raise ValueError
BroadcastConfigError(nsrc, ndst) == nsrc < 1 \/ ndst < 1

BroadcastValidate ==
    /\ bpc = "start"
    /\ bpc' = IF BroadcastConfigError(bNSrc, bNDst) THEN "cfgerror" ELSE "loop"
    /\ UNCHANGED <<bNSrc, bNDst, sources, destinations, futures, content, rounds, issued>>
    /\ UNCHANGED <<svars, fvars, dvars>>

\* while len(destinations) > 0: submit one copy_rsync per pair
BroadcastSubmit ==
    /\ bpc = "loop"
    /\ Len(destinations) > 0
    /\ futures' = SubmitRound(sources, destinations)
    /\ rounds' = rounds + 1
    /\ issued' = [d \in DestinationRows |->
                    IF \E i \in 1..Len(futures') : futures'[i].dst = d
                      THEN [round |-> rounds + 1, state |-> "running"]
                      ELSE issued[d]]
    /\ bpc' = "wait"
    /\ UNCHANGED <<bNSrc, bNDst, sources, destinations, content>>
    /\ UNCHANGED <<svars, fvars, dvars>>

\* the while condition is false: broadcast() returns
BroadcastReturn ==
    /\ bpc = "loop"
    /\ Len(destinations) = 0
    /\ bpc' = "done"
    /\ UNCHANGED <<bNSrc, bNDst, sources, destinations, futures, content, rounds, issued>>
    /\ UNCHANGED <<svars, fvars, dvars>>

\* one copy_rsync(src_node, src, dst_node, dst) ends: returncode 0 puts the
\* source path's content at the destination path, any other returncode is an error
CopyRsyncEnds(i, ok) ==
    /\ bpc = "wait"
    /\ i \in 1..Len(futures)
    /\ futures[i].state = "running"
    /\ futures' = [futures EXCEPT ![i].state = IF ok THEN "ok" ELSE "error"]
    /\ content' = [content EXCEPT ![futures[i].dst] =
                        IF ok THEN content[futures[i].src] ELSE NoCopy]
    /\ issued' = [issued EXCEPT ![futures[i].dst].state = IF ok THEN "ok" ELSE "error"]
    /\ UNCHANGED <<bpc, bNSrc, bNDst, sources, destinations, rounds>>
    /\ UNCHANGED <<svars, fvars, dvars>>

\* the results are read once every future of the round has ended
BroadcastCollect ==
    /\ bpc = "wait"
    /\ RoundFinished(futures)
    /\ IF RoundFailed(futures)
         THEN /\ bpc' = "failed"
              /\ UNCHANGED <<sources, destinations>>
         ELSE /\ bpc' = "loop"
              /\ sources' = NextSources(sources, destinations, Len(futures))
              /\ destinations' = NextDestinations(destinations, Len(futures))
    /\ UNCHANGED <<bNSrc, bNDst, futures, content, rounds, issued>>
    /\ UNCHANGED <<svars, fvars, dvars>>

NextBroadcast ==
    \/ BroadcastValidate
    \/ BroadcastSubmit
    \/ BroadcastReturn
    \/ \E i \in 1..MaxDst, ok \in BOOLEAN : CopyRsyncEnds(i, ok)
    \/ BroadcastCollect

(***************************************************************************)
(*                                 Server                                  *)
(***************************************************************************)

\* self.token is None
NoToken == "None"

\* the configured secrets the model tries
Tokens == {NoToken, "secret"}

NoReq == [kind |-> "none", command |-> "absent", token |-> "absent", arg |-> "absent"]

\* What a peer can send.  kind "garbage": bytes json.loads() rejects.
\* kind "object": a JSON object; command / token are "absent" when the key is
\* missing; arg stands for the command's own fields (folder, or src and dst):
\* "absent" when missing, "good" when the folder exists / rsync returns 0,
\* "bad" when the folder does not exist / rsync returns non-zero.
Requests ==
    {[kind |-> "garbage", command |-> "absent", token |-> "absent", arg |-> "absent"]}
    \cup [kind : {"object"},
          command : {"absent", "ping", "kill", "bogus"},
          token : {"absent", "secret", "wrong"},
          arg : {"absent"}]
    \cup [kind : {"object"},
          command : {"free_disk_space", "copy_rsync"},
          token : {"absent", "secret", "wrong"},
          arg : {"absent", "good", "bad"}]

Msg(field, text) == {<<field, text>>}

NoResponse == {}

Fields(r) == {p[1] : p \in r}

\* if self.token is not None and ("token" not in message or message["token"] != self.token)
AuthFailsNoneUnchecked(tok, m) == m.token = "absent" \/ m.token /= tok

AuthFailsMissingAccepted(tok, m) == tok /= NoToken /\ m.token /= "absent" /\ m.token /= tok

AuthFails(tok, m) == tok /= NoToken /\ (m.token = "absent" \/ m.token /= tok)

\* Server.free_disk_space: shutil.disk_usage raises on a path that does not exist
FreeDiskSpace(arg) ==
    IF arg = "good"
      THEN [raised |-> FALSE, resp |-> Msg("free", "bytes"), exec |-> "free_disk_space"]
      ELSE [raised |-> TRUE, resp |-> NoResponse, exec |-> "free_disk_space"]

\* Server.copy_rsync: the returncode of rsync decides the payload
ServerCopyRsync(arg) ==
    IF arg = "good"
      THEN [raised |-> FALSE, resp |-> Msg("message", "Success"), exec |-> "copy_rsync"]
      ELSE [raised |-> FALSE, resp |-> Msg("error", "Error during copy"), exec |-> "copy_rsync"]

\* the kill branch: the response is built, then self.server.close() is called
Kill == [raised |-> FALSE, resp |-> Msg("message", "Server killed"), exec |-> "kill"]

\* the if / elif chain on message["command"]
Dispatch(m) ==
    CASE m.command = "absent" ->        \* message["command"]: KeyError
            [raised |-> TRUE, resp |-> NoResponse, exec |-> "none"]
      [] m.command = "free_disk_space" ->
            IF m.arg = "absent"         \* message["folder"]: KeyError
              THEN [raised |-> TRUE, resp |-> NoResponse, exec |-> "none"]
              ELSE FreeDiskSpace(m.arg)
      [] m.command = "copy_rsync" ->
            IF m.arg = "absent"         \* message["src"]: KeyError
              THEN [raised |-> TRUE, resp |-> NoResponse, exec |-> "none"]
              ELSE ServerCopyRsync(m.arg)
      [] m.command = "ping" ->
            [raised |-> FALSE, resp |-> Msg("message", "Pong"), exec |-> "none"]
      [] m.command = "kill" -> Kill
      [] OTHER ->
            [raised |-> FALSE, resp |-> Msg("error", "Unknown command"), exec |-> "none"]

\* handle_client from the return of reader.read() to its end: what is written
\* to the peer, which command ran, and whether an exception left the handler
Handle(tok, m) ==
    IF m.kind = "garbage"               \* json.loads raises
      THEN [raised |-> TRUE, resp |-> NoResponse, exec |-> "none"]
      ELSE IF AuthFails(tok, m)
             THEN [raised |-> FALSE, resp |-> Msg("error", "Invalid token"), exec |-> "none"]
             ELSE Dispatch(m)

\* the calls handle_client makes on the listening server and on the writer,
\* in the order of its statements: the kill branch calls self.server.close()
\* where it builds the response; writer.write(), drain() and writer.close()
\* come after the if / elif chain; a handler that raised made none of them
Calls(out) ==
    IF out.raised
      THEN <<>>
      ELSE (IF out.exec = "kill" THEN <<"server.close">> ELSE <<>>)
             \o <<"writer.write", "writer.drain", "writer.close">>

Conns == 1..MaxConn

SInit ==
    /\ token \in Tokens
    /\ server = "none"
    /\ conn = [c \in Conns |-> "idle"]
    /\ req = [c \in Conns |-> NoReq]
    /\ resp = [c \in Conns |-> NoResponse]
    /\ executed = [c \in Conns |-> "none"]
    /\ openAtKill = {}
    /\ log = [c \in Conns |-> <<>>]

SIdle ==
    /\ token = NoToken
    /\ server = "none"
    /\ conn = <<>>
    /\ req = <<>>
    /\ resp = <<>>
    /\ executed = <<>>
    /\ openAtKill = {}
    /\ log = <<>>

\* Server.start: asyncio.start_server, then serve_forever
Start ==
    /\ server = "none"
    /\ server' = "serving"
    /\ UNCHANGED <<token, conn, req, resp, executed, openAtKill, log>>
    /\ UNCHANGED <<bvars, fvars, dvars>>

\* a peer connects: the listening socket accepts it and handle_client starts
\* (it waits in reader.read()), or nothing listens and the peer is refused
Connect(c) ==
    /\ conn[c] = "idle"
    /\ conn' = [conn EXCEPT ![c] = IF server = "serving" THEN "open" ELSE "refused"]
    /\ UNCHANGED <<token, server, req, resp, executed, openAtKill, log>>
    /\ UNCHANGED <<bvars, fvars, dvars>>

\* the peer has sent m and closed its write side: reader.read() returns and
\* handle_client runs to its end without another suspension
HandleClient(c, m) ==
    /\ conn[c] = "open"
    /\ LET out == Handle(token, m) IN
        /\ req' = [req EXCEPT ![c] = m]
        /\ resp' = [resp EXCEPT ![c] = out.resp]
        /\ executed' = [executed EXCEPT ![c] = out.exec]
        /\ conn' = [conn EXCEPT ![c] = IF out.raised THEN "raised" ELSE "closed"]
        /\ log' = [log EXCEPT ![c] = Calls(out)]
        /\ IF out.exec = "kill"
             THEN /\ server' = "closed"
                  /\ openAtKill' = IF server = "serving"
                                     THEN {d \in Conns : conn[d] = "open"}
                                     ELSE openAtKill
             ELSE UNCHANGED <<server, openAtKill>>
    /\ UNCHANGED token
    /\ UNCHANGED <<bvars, fvars, dvars>>

NextServer ==
    \/ Start
    \/ \E c \in Conns : Connect(c)
    \/ \E c \in Conns, m \in Requests : HandleClient(c, m)

(***************************************************************************)
(*                    scatter() and gather() on a file                     *)
(***************************************************************************)

\* row["to"] of an empty cell: pandas reads NaN
None == -1

\* the source file: MaxLines lines, line i holding i; every source row holds it
File == [i \in 1..MaxLines |-> i]

\* a line that is not one of the source file's
StaleLine == 0

\* the destination rows a configuration can hold
RowSpace ==
    {r \in [from : 0..MaxLines, to : (0..MaxLines) \cup {None}] :
        r.to = None \/ r.from <= r.to}

RowSeqs == UNION {[1..n -> RowSpace] : n \in 0..MaxFDst}

\* number_of_lines_in_file: wc -l
NumberOfLinesInFile(f) == Len(f)

\* sed -n 'a,bp': lines a..b, and line a alone when b < a
SedPrint(f, a, b) == SubSeq(f, a, Min(Max(a, b), Len(f)))

\* the lines send_line_interval_from_file pipes to the destination:
\* cat for the whole file, else sed -n '{from_line+1},{to_line}p'
SendLines(f, from, to) ==
    IF from = 0 /\ to = None
      THEN f
      ELSE SedPrint(f, from + 1, IF to = None THEN NumberOfLinesInFile(f) ELSE to)

\* scatter(): len(sources) < 1, len(destinations) < 1 raise ValueError
ScatterConfigError(nsrc, ndst) == nsrc < 1 \/ ndst < 1

\* gather(): len(sources) != 1, len(destinations) < 1 raise ValueError
GatherConfigErrorAsScatter(nsrc, ndst) == nsrc < 1 \/ ndst < 1

GatherConfigError(nsrc, ndst) == nsrc /= 1 \/ ndst < 1

\* a command run on a node through ssh, as the drivers' histories record it
Call(op, src, dst, state) == [op |-> op, src |-> src, dst |-> dst, state |-> state]

\* the history with the call of kind op from src to dst marked as ended
Ended(calls, op, src, dst, ok) ==
    [j \in 1..Len(calls) |->
        IF calls[j].op = op /\ calls[j].src = src /\ calls[j].dst = dst
             /\ calls[j].state = "running"
          THEN [calls[j] EXCEPT !.state = IF ok THEN "ok" ELSE "error"]
          ELSE calls[j]]

FInit ==
    /\ spc = "start"
    /\ gpc = "idle"
    /\ fNSrc \in 0..MaxFSrc
    /\ rows \in RowSeqs
    /\ dfile = [d \in 1..Len(rows) |-> <<>>]
    /\ targetIsFile \in BOOLEAN
    /\ target \in (IF targetIsFile THEN {File, <<StaleLine>>} ELSE {<<>>})
    /\ ffutures = <<>>
    /\ fdst = 0
    /\ gdst = 0
    /\ removed = "notrun"
    /\ scalls = <<>>
    /\ gcalls = <<>>
    /\ gNSrc = 0

FIdle ==
    /\ spc = "idle"
    /\ gpc = "idle"
    /\ fNSrc = 0
    /\ rows = <<>>
    /\ dfile = <<>>
    /\ targetIsFile = FALSE
    /\ target = <<>>
    /\ ffutures = <<>>
    /\ fdst = 0
    /\ gdst = 0
    /\ removed = "notrun"
    /\ scalls = <<>>
    /\ gcalls = <<>>
    /\ gNSrc = 0

\* scatter(): the two len() checks, then is_file(first source) selects scatter_file
ScatterFileEnter ==
    /\ spc = "start"
    /\ IF ScatterConfigError(fNSrc, Len(rows))
         THEN spc' = "cfgerror" /\ fdst' = fdst /\ scalls' = scalls
         ELSE /\ spc' = "loop"
              /\ fdst' = 1
              /\ scalls' = Append(scalls, Call("is_file", 1, 0, "ok"))
    /\ UNCHANGED <<gpc, fNSrc, rows, dfile, target, targetIsFile, ffutures, gdst, removed>>
    /\ UNCHANGED <<gcalls, gNSrc>>
    /\ UNCHANGED <<bvars, svars, dvars>>

\* one pass of `for _, row in destinations.iterrows()`: one future per source
\* row; int(row["to"]) raises ValueError on NaN before anything is submitted
ScatterFileSubmit ==
    /\ spc = "loop"
    /\ fdst <= Len(rows)
    /\ IF rows[fdst].to = None
         THEN spc' = "raised" /\ ffutures' = ffutures /\ scalls' = scalls
         ELSE /\ spc' = "wait"
              /\ ffutures' = [i \in 1..fNSrc |-> "running"]
              /\ scalls' = scalls \o [i \in 1..fNSrc |-> Call("send", i, fdst, "running")]
    /\ UNCHANGED <<gpc, fNSrc, rows, dfile, target, targetIsFile, fdst, gdst, removed>>
    /\ UNCHANGED <<gcalls, gNSrc>>
    /\ UNCHANGED <<bvars, svars, dvars>>

\* one send_line_interval_from_file(..., append=True) of the round ends: on
\* returncode 0 its lines have been appended to the destination file
ScatterSendEnds(i, ok) ==
    /\ spc = "wait"
    /\ i \in 1..Len(ffutures)
    /\ ffutures[i] = "running"
    /\ ffutures' = [ffutures EXCEPT ![i] = IF ok THEN "ok" ELSE "error"]
    /\ dfile' = IF ok
                  THEN [dfile EXCEPT ![fdst] =
                            @ \o SendLines(File, rows[fdst].from, rows[fdst].to)]
                  ELSE dfile
    /\ scalls' = Ended(scalls, "send", i, fdst, ok)
    /\ UNCHANGED <<spc, gpc, fNSrc, rows, target, targetIsFile, fdst, gdst, removed>>
    /\ UNCHANGED <<gcalls, gNSrc>>
    /\ UNCHANGED <<bvars, svars, dvars>>

\* leaving the `with ThreadPoolExecutor()` block waits for every future
SendsFinishedNoWait(fs) == TRUE

SendsFinished(fs) == \A i \in 1..Len(fs) : fs[i] /= "running"

\* the round's results are read once every future has ended
ScatterFileCollect ==
    /\ spc = "wait"
    /\ SendsFinished(ffutures)
    /\ IF \E i \in 1..Len(ffutures) : ffutures[i] = "error"
         THEN spc' = "failed" /\ fdst' = fdst
         ELSE spc' = "loop" /\ fdst' = fdst + 1
    /\ UNCHANGED <<gpc, fNSrc, rows, dfile, target, targetIsFile, ffutures, gdst, removed>>
    /\ UNCHANGED <<scalls, gcalls, gNSrc>>
    /\ UNCHANGED <<bvars, svars, dvars>>

\* the for loop is exhausted: scatter_file returns
ScatterFileReturn ==
    /\ spc = "loop"
    /\ fdst > Len(rows)
    /\ spc' = "done"
    /\ UNCHANGED <<gpc, fNSrc, rows, dfile, target, targetIsFile, ffutures, fdst, gdst, removed>>
    /\ UNCHANGED <<scalls, gcalls, gNSrc>>
    /\ UNCHANGED <<bvars, svars, dvars>>

ScatterEnded == spc \in {"done", "failed", "raised", "cfgerror"}

\* gather() on a configuration with n source rows and the same destination
\* rows: the two len() checks, then is_file(source) selects gather_file
GatherEnter(n) ==
    /\ ScatterEnded
    /\ gpc = "idle"
    /\ gNSrc' = n
    /\ gpc' = IF GatherConfigError(n, Len(rows)) THEN "cfgerror"
              ELSE IF targetIsFile THEN "rm" ELSE "folder"
    /\ gcalls' = IF GatherConfigError(n, Len(rows))
                  THEN gcalls
                  ELSE Append(gcalls, Call("is_file", 1, 0, "ok"))
    /\ UNCHANGED <<spc, fNSrc, rows, dfile, target, targetIsFile, ffutures, fdst, gdst, removed>>
    /\ UNCHANGED scalls
    /\ UNCHANGED <<bvars, svars, dvars>>

\* remove_file(source): rm; what it returns is not looked at
GatherRemoveFile(ok) ==
    /\ gpc = "rm"
    /\ removed' = IF ok THEN "ok" ELSE "error"
    /\ target' = IF ok THEN <<>> ELSE target
    /\ gpc' = "loop"
    /\ gdst' = 1
    /\ gcalls' = Append(gcalls, Call("rm", 1, 0, IF ok THEN "ok" ELSE "error"))
    /\ UNCHANGED <<spc, fNSrc, rows, dfile, targetIsFile, ffutures, fdst>>
    /\ UNCHANGED <<scalls, gNSrc>>
    /\ UNCHANGED <<bvars, svars, dvars>>

\* one pass of gather_file's loop: the whole destination file is appended to
\* the source row's path, and an error payload raises RuntimeError
GatherSend(ok) ==
    /\ gpc = "loop"
    /\ gdst <= Len(rows)
    /\ IF ok
         THEN /\ target' = target \o SendLines(dfile[gdst], 0, None)
              /\ gdst' = gdst + 1
              /\ gpc' = gpc
         ELSE /\ gpc' = "failed"
              /\ UNCHANGED <<target, gdst>>
    /\ gcalls' = Append(gcalls, Call("send", gdst, 0, IF ok THEN "ok" ELSE "error"))
    /\ UNCHANGED <<spc, fNSrc, rows, dfile, targetIsFile, ffutures, fdst, removed>>
    /\ UNCHANGED <<scalls, gNSrc>>
    /\ UNCHANGED <<bvars, svars, dvars>>

\* the files of rows 1..n appended one after the other, in row order
RECURSIVE ConcatFiles(_, _)
ConcatFiles(files, n) ==
    IF n = 0 THEN <<>> ELSE ConcatFiles(files, n - 1) \o SendLines(files[n], 0, None)

\* gather_file run to its end with every transfer succeeding, on a target
\* holding t: rm empties the target when it succeeds, then every row's file
\* is appended
GatherFileResult(t, files, rmok) ==
    (IF rmok THEN <<>> ELSE t) \o ConcatFiles(files, Len(files))

\* gather_file's loop is exhausted
GatherFileReturn ==
    /\ gpc = "loop"
    /\ gdst > Len(rows)
    /\ gpc' = "done"
    /\ UNCHANGED <<spc, fNSrc, rows, dfile, target, targetIsFile, ffutures, fdst, gdst, removed>>
    /\ UNCHANGED <<scalls, gcalls, gNSrc>>
    /\ UNCHANGED <<bvars, svars, dvars>>

\* the source row's path is no regular file: gather_folder runs
\* rsync -a node:path/ on a destination whose path is a file, rsync fails,
\* and the error payload raises RuntimeError
GatherFolderOnFiles ==
    /\ gpc = "folder"
    /\ gpc' = "failed"
    /\ gcalls' = Append(gcalls, Call("rsync", 1, 0, "error"))
    /\ UNCHANGED <<spc, fNSrc, rows, dfile, target, targetIsFile, ffutures, fdst, gdst, removed>>
    /\ UNCHANGED <<scalls, gNSrc>>
    /\ UNCHANGED <<bvars, svars, dvars>>

NextFile ==
    \/ ScatterFileEnter
    \/ ScatterFileSubmit
    \/ \E i \in 1..MaxFSrc, ok \in BOOLEAN : ScatterSendEnds(i, ok)
    \/ ScatterFileCollect
    \/ ScatterFileReturn
    \/ \E n \in 0..MaxFSrc : GatherEnter(n)
    \/ \E ok \in BOOLEAN : GatherRemoveFile(ok)
    \/ \E ok \in BOOLEAN : GatherSend(ok)
    \/ GatherFileReturn
    \/ GatherFolderOnFiles

(***************************************************************************)
(*                  scatter() and gather() on a directory                  *)
(***************************************************************************)

\* the files under the source directory, named so that i sorts before i + 1;
\* every source row holds the same tree
Tree == 1..MaxFiles

\* a file that is not one of the source directory's
StaleFile == 0

\* the destination rows a configuration can hold
DirRowSpace ==
    {r \in [from : 0..MaxFiles, to : (0..MaxFiles) \cup {None}] :
        IF r.to = None THEN r.from = 0 ELSE r.from <= r.to}

DirRowSeqs == UNION {[1..n -> DirRowSpace] : n \in 0..MaxFDst}

\* what `find folder -type f` can print: the files, in any order
FindOutputs(S) ==
    {q \in [1..Cardinality(S) -> S] : \A i, j \in 1..Cardinality(S) : q[i] = q[j] => i = j}

\* sorted(all_files), by insertion
RECURSIVE Sorted(_)
Sorted(q) ==
    IF q = <<>> THEN <<>>
    ELSE LET rest == Sorted(Tail(q))
             k == Cardinality({i \in 1..Len(rest) : rest[i] < Head(q)})
         IN SubSeq(rest, 1, k) \o <<Head(q)>> \o SubSeq(rest, k + 1, Len(rest))

\* all_files[int(row["from"]):int(row["to"])] for 0 <= from, 0 <= to
SliceShort(q, from, to) == SubSeq(q, from + 1, Min(to, Len(q)) - 1)

Slice(q, from, to) == SubSeq(q, from + 1, Min(to, Len(q)))

Range(q) == {q[i] : i \in 1..Len(q)}

BatchWhole(offset, nsrc, ndst) == (offset + 1)..ndst

\* the rows of the batch that starts at offset:
\* destinations[destinations_offset:destinations_offset + len(sources)]
Batch(offset, nsrc, ndst) == (offset + 1)..Min(offset + nsrc, ndst)

\* executor.submit(copy_rsync, source_row, row, all_files[from:to]) for the
\* i-th row of the batch that starts at offset
Copy(i, dst, offset, files) ==
    [op |-> "rsync", src |-> i, dst |-> dst, state |-> "running",
     batch |-> offset, files |-> files]

DInit ==
    /\ dspc = "start"
    /\ dgpc = "idle"
    /\ dNSrc \in 0..MaxFSrc
    /\ drows \in DirRowSeqs
    /\ all_files = <<>>
    /\ dtree = [d \in 1..Len(drows) |-> {}]
    /\ ttree0 \in {{}, {StaleFile}}
    /\ ttree = ttree0
    /\ dfutures = <<>>
    /\ destinations_offset = 0
    /\ dgdst = 0
    /\ dscalls = <<>>
    /\ dgcalls = <<>>
    /\ dgNSrc = 0

DIdle ==
    /\ dspc = "idle"
    /\ dgpc = "idle"
    /\ dNSrc = 0
    /\ drows = <<>>
    /\ all_files = <<>>
    /\ dtree = <<>>
    /\ ttree0 = {}
    /\ ttree = {}
    /\ dfutures = <<>>
    /\ destinations_offset = 0
    /\ dgdst = 0
    /\ dscalls = <<>>
    /\ dgcalls = <<>>
    /\ dgNSrc = 0

\* scatter(): the two len() checks, then is_file(first source) is false and
\* scatter_folder is entered
ScatterFolderEnter ==
    /\ dspc = "start"
    /\ dspc' = IF ScatterConfigError(dNSrc, Len(drows)) THEN "cfgerror" ELSE "list"
    /\ dscalls' = IF ScatterConfigError(dNSrc, Len(drows))
                   THEN dscalls
                   ELSE Append(dscalls, Call("is_file", 1, 0, "ok"))
    /\ UNCHANGED <<dgpc, dNSrc, drows, all_files, dtree, ttree, ttree0, dfutures,
                   destinations_offset, dgdst>>
    /\ UNCHANGED <<dgcalls, dgNSrc>>
    /\ UNCHANGED <<bvars, svars, fvars>>

\* list_all_files_in_folder on the first source, then sorted(); a listing
\* that failed (None) raises RuntimeError
ScatterFolderList(found, ok) ==
    /\ dspc = "list"
    /\ found \in FindOutputs(Tree)
    /\ IF ok
         THEN dspc' = "loop" /\ all_files' = Sorted(found)
         ELSE dspc' = "failed" /\ all_files' = all_files
    /\ dscalls' = Append(dscalls, Call("find", 1, 0, IF ok THEN "ok" ELSE "error"))
    /\ UNCHANGED <<dgpc, dNSrc, drows, dtree, ttree, ttree0, dfutures,
                   destinations_offset, dgdst>>
    /\ UNCHANGED <<dgcalls, dgNSrc>>
    /\ UNCHANGED <<bvars, svars, fvars>>

\* one pass of `for destinations_offset in range(0, len(destinations), len(sources))`:
\* one copy_rsync per row of the batch; int(row["to"]) raises ValueError on NaN
ScatterFolderSubmit ==
    /\ dspc = "loop"
    /\ destinations_offset < Len(drows)
    /\ LET batch == Batch(destinations_offset, dNSrc, Len(drows))
           firstNone == {d \in batch : drows[d].to = None /\ \A e \in batch : (e < d => drows[e].to /= None)}
       IN /\ IF firstNone /= {}
               THEN /\ dspc' = "raised"
                    /\ dfutures' = [i \in 1..((CHOOSE d \in firstNone : TRUE) - destinations_offset - 1) |->
                                       [dst |-> destinations_offset + i, state |-> "running"]]
               ELSE /\ dspc' = "wait"
                    /\ dfutures' = [i \in 1..Cardinality(batch) |->
                                       [dst |-> destinations_offset + i, state |-> "running"]]
          /\ dscalls' = dscalls \o
                [i \in 1..Len(dfutures') |->
                    Copy(i, dfutures'[i].dst, destinations_offset,
                         Slice(all_files, drows[dfutures'[i].dst].from, drows[dfutures'[i].dst].to))]
    /\ UNCHANGED <<dgpc, dNSrc, drows, all_files, dtree, ttree, ttree0,
                   destinations_offset, dgdst>>
    /\ UNCHANGED <<dgcalls, dgNSrc>>
    /\ UNCHANGED <<bvars, svars, fvars>>

\* one copy_rsync(..., files_from_source) of the batch ends: on returncode 0
\* the listed files are under the destination path
ScatterCopyEnds(i, ok) ==
    /\ dspc \in {"wait", "raised"}
    /\ i \in 1..Len(dfutures)
    /\ dfutures[i].state = "running"
    /\ dfutures' = [dfutures EXCEPT ![i].state = IF ok THEN "ok" ELSE "error"]
    /\ LET d == dfutures[i].dst IN
         dtree' = IF ok
                    THEN [dtree EXCEPT ![d] =
                             @ \cup Range(Slice(all_files, drows[d].from, drows[d].to))]
                    ELSE dtree
    /\ dscalls' = Ended(dscalls, "rsync", i, dfutures[i].dst, ok)
    /\ UNCHANGED <<dspc, dgpc, dNSrc, drows, all_files, ttree, ttree0,
                   destinations_offset, dgdst>>
    /\ UNCHANGED <<dgcalls, dgNSrc>>
    /\ UNCHANGED <<bvars, svars, fvars>>

\* leaving the `with ThreadPoolExecutor()` block waits for every future
CopiesFinished(fs) == \A i \in 1..Len(fs) : fs[i].state /= "running"

\* `if "error" in res: raise RuntimeError` over the batch's results
CopiesFailedIgnored(fs) == FALSE

CopiesFailed(fs) == \E i \in 1..Len(fs) : fs[i].state = "error"

\* the batch's results are read once every future has ended
ScatterFolderCollect ==
    /\ dspc = "wait"
    /\ CopiesFinished(dfutures)
    /\ IF CopiesFailed(dfutures)
         THEN dspc' = "failed" /\ destinations_offset' = destinations_offset
         ELSE dspc' = "loop" /\ destinations_offset' = destinations_offset + dNSrc
    /\ UNCHANGED <<dgpc, dNSrc, drows, all_files, dtree, ttree, ttree0, dfutures, dgdst>>
    /\ UNCHANGED <<dscalls, dgcalls, dgNSrc>>
    /\ UNCHANGED <<bvars, svars, fvars>>

\* the range is exhausted: scatter_folder returns
ScatterFolderReturn ==
    /\ dspc = "loop"
    /\ destinations_offset >= Len(drows)
    /\ dspc' = "done"
    /\ UNCHANGED <<dgpc, dNSrc, drows, all_files, dtree, ttree, ttree0, dfutures,
                   destinations_offset, dgdst>>
    /\ UNCHANGED <<dscalls, dgcalls, dgNSrc>>
    /\ UNCHANGED <<bvars, svars, fvars>>

ScatterFolderEnded ==
    /\ dspc \in {"done", "failed", "raised", "cfgerror"}
    /\ \A i \in 1..Len(dfutures) : dfutures[i].state /= "running"

\* gather() on a configuration with n source rows and the same destination
\* rows: the two len() checks, then is_file(source) is false and
\* gather_folder is entered
GatherFolderEnter(n) ==
    /\ ScatterFolderEnded
    /\ dgpc = "idle"
    /\ dgNSrc' = n
    /\ IF GatherConfigError(n, Len(drows))
         THEN dgpc' = "cfgerror" /\ dgdst' = dgdst /\ dgcalls' = dgcalls
         ELSE /\ dgpc' = "loop"
              /\ dgdst' = 1
              /\ dgcalls' = Append(dgcalls, Call("is_file", 1, 0, "ok"))
    /\ UNCHANGED <<dspc, dNSrc, drows, all_files, dtree, ttree, ttree0, dfutures,
                   destinations_offset>>
    /\ UNCHANGED dscalls
    /\ UNCHANGED <<bvars, svars, fvars>>

\* one pass of gather_folder's loop: rsync -a node:path/ merges the
\* destination's tree into the source row's path; an error payload raises
GatherCopy(ok) ==
    /\ dgpc = "loop"
    /\ dgdst <= Len(drows)
    /\ IF ok
         THEN /\ ttree' = ttree \cup dtree[dgdst]
              /\ dgdst' = dgdst + 1
              /\ dgpc' = dgpc
         ELSE /\ dgpc' = "failed"
              /\ UNCHANGED <<ttree, dgdst>>
    /\ dgcalls' = Append(dgcalls, Call("rsync", dgdst, 0, IF ok THEN "ok" ELSE "error"))
    /\ UNCHANGED <<dspc, dNSrc, drows, all_files, dtree, ttree0, dfutures,
                   destinations_offset>>
    /\ UNCHANGED <<dscalls, dgNSrc>>
    /\ UNCHANGED <<bvars, svars, fvars>>

\* gather_folder's loop is exhausted
GatherFolderReturn ==
    /\ dgpc = "loop"
    /\ dgdst > Len(drows)
    /\ dgpc' = "done"
    /\ UNCHANGED <<dspc, dNSrc, drows, all_files, dtree, ttree, ttree0, dfutures,
                   destinations_offset, dgdst>>
    /\ UNCHANGED <<dscalls, dgcalls, dgNSrc>>
    /\ UNCHANGED <<bvars, svars, fvars>>

InitBroadcast == BInit /\ SIdle /\ FIdle /\ DIdle

SpecBroadcast == InitBroadcast /\ [][NextBroadcast]_vars

InitServer == SInit /\ BIdle /\ FIdle /\ DIdle

SpecServer == InitServer /\ [][NextServer]_vars

InitFile == FInit /\ BIdle /\ SIdle /\ DIdle

SpecFile == InitFile /\ [][NextFile]_vars

InitFolder == DInit /\ BIdle /\ SIdle /\ FIdle

NextFolder ==
    \/ ScatterFolderEnter
    \/ \E found \in FindOutputs(Tree), ok \in BOOLEAN : ScatterFolderList(found, ok)
    \/ ScatterFolderSubmit
    \/ \E i \in 1..MaxFSrc, ok \in BOOLEAN : ScatterCopyEnds(i, ok)
    \/ ScatterFolderCollect
    \/ ScatterFolderReturn
    \/ \E n \in 0..MaxFSrc : GatherFolderEnter(n)
    \/ \E ok \in BOOLEAN : GatherCopy(ok)
    \/ GatherFolderReturn

SpecFolder == InitFolder /\ [][NextFolder]_vars

\* one invocation of the driver: main() dispatches to broadcast, scatter or
\* gather, and scatter / gather to their file or folder variant
InitDrivers == InitBroadcast \/ InitFile \/ InitFolder

NextDrivers == NextBroadcast \/ NextFile \/ NextFolder

SpecDrivers == InitDrivers /\ [][NextDrivers]_vars

\* the three loops that work in rounds of parallel transfers: broadcast,
\* scatter_file and scatter_folder
NextRounds ==
    \/ NextBroadcast
    \/ ScatterFileEnter
    \/ ScatterFileSubmit
    \/ \E i \in 1..MaxFSrc, ok \in BOOLEAN : ScatterSendEnds(i, ok)
    \/ ScatterFileCollect
    \/ ScatterFileReturn
    \/ ScatterFolderEnter
    \/ \E found \in FindOutputs(Tree), ok \in BOOLEAN : ScatterFolderList(found, ok)
    \/ ScatterFolderSubmit
    \/ \E i \in 1..MaxFSrc, ok \in BOOLEAN : ScatterCopyEnds(i, ok)
    \/ ScatterFolderCollect
    \/ ScatterFolderReturn

SpecRounds == InitDrivers /\ [][NextRounds]_vars

(***************************************************************************)
(*                         Claims on broadcast()                           *)
(***************************************************************************)

RECURSIVE Pow2(_)
Pow2(r) == IF r = 0 THEN 1 ELSE 2 * Pow2(r - 1)

\* the least r with 2^r >= n, for n >= 1
CeilLog2(n) == CHOOSE r \in 0..n : Pow2(r) >= n /\ \A q \in 0..(r - 1) : Pow2(q) < n

\* C1: with exactly one source row and N >= 1 destination rows, a broadcast in
\* which every transfer succeeds has run ceil(log2(N+1)) rounds when it returns.
C1_RoundsAreCeilLog2 ==
    (bpc = "done" /\ bNSrc = 1) => rounds = CeilLog2(bNDst + 1)

\* a completed one-source broadcast to 5 destinations: 3 rounds (1 + 2 + 2)
C1_Witness == bpc = "done" /\ bNSrc = 1 /\ bNDst = 5 /\ rounds = 3

\* C2: every transfer is issued from a row that already holds a source's
\* original content, and when broadcast returns every destination row holds
\* that content (the one source's content when there is one source row).
C2_DestinationsHoldSource ==
    /\ \A i \in 1..Len(futures) : futures[i].srcHeld \in SourceRows
    /\ bpc = "done" =>
          \A d \in DestinationRows :
              /\ content[d] \in SourceRows
              /\ bNSrc = 1 => content[d] = 1

\* a completed broadcast whose last round copied from a destination of an
\* earlier round, and every destination holds the source's content
C2_Witness ==
    /\ bpc = "done"
    /\ bNSrc = 1
    /\ bNDst >= 3
    /\ \E i \in 1..Len(futures) : futures[i].src \in DestinationRows
    /\ \A d \in DestinationRows : content[d] = 1

(***************************************************************************)
(*                          Claims on the Server                           *)
(***************************************************************************)

Handled(c) == conn[c] \in {"closed", "raised"}

\* C3: with a token configured, a request whose token is missing or wrong is
\* answered {error: "Invalid token"} and runs no command; the server is closed
\* only by a kill that passed the token check.
C3_InvalidTokenRunsNothing ==
    /\ \A c \in Conns :
          (token /= NoToken /\ req[c].kind = "object" /\ req[c].token /= token) =>
              /\ conn[c] = "closed"
              /\ resp[c] = Msg("error", "Invalid token")
              /\ executed[c] = "none"
    /\ server = "closed" =>
          \E c \in Conns :
              /\ executed[c] = "kill"
              /\ token /= NoToken => req[c].token = token

\* a kill without the token and a kill with a wrong token were both answered
\* "Invalid token", and the server still serves
C3_Witness ==
    /\ token = "secret"
    /\ server = "serving"
    /\ \E c, d \in Conns :
          /\ req[c].command = "kill" /\ req[c].token = "absent"
          /\ req[d].command = "kill" /\ req[d].token = "wrong"
          /\ resp[c] = Msg("error", "Invalid token")
          /\ resp[d] = Msg("error", "Invalid token")

\* C4 (as claimed): a kill is answered {message: "Server killed"}, no connection
\* is accepted once the server is closed, and every connection that was open
\* when the kill ran receives a response.
C4_KillKeepsOpenConnections ==
    /\ \A c \in Conns : executed[c] = "kill" => resp[c] = Msg("message", "Server killed")
    /\ server = "closed" => \A c \in Conns : conn[c] = "open" => c \in openAtKill
    /\ \A c \in openAtKill : Handled(c) => resp[c] /= NoResponse

\* C5 (as claimed): every response written carries exactly one of the fields
\* message and error.
C5_MessageXorError ==
    \A c \in Conns :
        conn[c] = "closed" => Fields(resp[c]) \in {{"message"}, {"error"}}

\* the requests whose command fails
IsFailure(m) ==
    \/ m.kind = "garbage"
    \/ m.kind = "object" /\ m.command \in {"absent", "bogus"}
    \/ m.kind = "object" /\ m.command \in {"free_disk_space", "copy_rsync"} /\ m.arg /= "good"

\* C6 (as claimed): every failing request is answered with an error payload and
\* no exception leaves the handler; the server stops serving only by a kill.
C6_FailuresAreErrorPayloads ==
    /\ \A c \in Conns :
          (Handled(c) /\ IsFailure(req[c])) =>
              /\ conn[c] /= "raised"
              /\ Fields(resp[c]) = {"error"}
    /\ server = "closed" => \E c \in Conns : executed[c] = "kill"

\* C7: with no token configured a ping is answered {message: "Pong"} and runs
\* no command (the server's state is left as it was), whatever the other
\* connections carry and whether or not a kill has run.
C7_PingPongs ==
    \A c \in Conns :
        (token = NoToken /\ req[c].kind = "object" /\ req[c].command = "ping") =>
            /\ conn[c] = "closed"
            /\ resp[c] = Msg("message", "Pong")
            /\ executed[c] = "none"

\* a ping that was open while another connection's kill ran, answered after it
C7_Witness ==
    /\ token = NoToken
    /\ server = "closed"
    /\ \E c \in openAtKill :
          /\ req[c].command = "ping"
          /\ resp[c] = Msg("message", "Pong")
          /\ executed[c] = "none"

(***************************************************************************)
(*                 Claims on scatter / gather of a file                    *)
(***************************************************************************)

\* the rows' [from, to) ranges are non-empty, ascending, contiguous and cover
\* the source file
ContiguousCover(rs) ==
    /\ Len(rs) >= 1
    /\ rs[1].from = 0
    /\ rs[Len(rs)].to = Len(File)
    /\ \A d \in 1..Len(rs) : rs[d].to /= None /\ rs[d].from < rs[d].to
    /\ \A d \in 1..(Len(rs) - 1) : rs[d].to = rs[d + 1].from

\* C8 (as claimed): after scatter_file and gather_file have both succeeded on
\* contiguous covering ascending ranges, with any number of source rows, the
\* gather target holds exactly the source file's lines, in order.
C8_FileRoundTrip ==
    (/\ spc = "done"
     /\ gpc = "done"
     /\ removed = "ok"
     /\ fNSrc >= 1
     /\ ContiguousCover(rows)) => target = File

\* C9 (as claimed): a destination row whose to is None makes scatter deliver
\* the lines from `from` to the end of the file: scatter does not raise on it,
\* and after a successful one-source scatter the row's file holds those lines.
C9_OpenIntervalToEnd ==
    \A d \in 1..Len(rows) :
        rows[d].to = None =>
            /\ spc /= "raised"
            /\ (spc = "done" /\ fNSrc = 1) =>
                  dfile[d] = SubSeq(File, rows[d].from + 1, Len(File))

(***************************************************************************)
(*               Claims on scatter / gather of a directory                 *)
(***************************************************************************)

\* the rows' [from, to) ranges are contiguous, in row order, and cover the
\* indices 0..L of the listing
DirContiguousCover(rs) ==
    /\ Len(rs) >= 1
    /\ rs[1].from = 0
    /\ rs[Len(rs)].to = MaxFiles
    /\ \A d \in 1..Len(rs) : rs[d].to /= None
    /\ \A d \in 1..(Len(rs) - 1) : rs[d].to = rs[d + 1].from

\* the sorted listings a directory holding the files S can have
Listings(S) == {Sorted(q) : q \in FindOutputs(S)}

\* C10: after scatter_folder and gather_folder have both succeeded on
\* contiguous covering ranges, into a gather target that held no foreign file,
\* the target's sorted listing is the original sorted listing, and the
\* destinations' trees together are the original tree.
C10_FolderRoundTrip ==
    (/\ dspc = "done"
     /\ dgpc = "done"
     /\ DirContiguousCover(drows)
     /\ ttree0 \subseteq Tree) =>
        /\ Listings(ttree) = {all_files}
        /\ Listings(Tree) = {all_files}
        /\ UNION {dtree[d] : d \in 1..Len(drows)} = Tree

\* one source, two destinations with non-empty halves (two batches), gathered
\* into an empty target
C10_Witness ==
    /\ dspc = "done"
    /\ dgpc = "done"
    /\ dNSrc = 1
    /\ Len(drows) = 2
    /\ DirContiguousCover(drows)
    /\ \A d \in 1..Len(drows) : dtree[d] /= {} /\ dtree[d] /= Tree
    /\ ttree0 = {}
    /\ ttree = Tree

(***************************************************************************)
(*                     Claims on broadcast(), continued                    *)
(***************************************************************************)

\* C12: a destination row is the source of a transfer only after the transfer
\* into it, of an earlier round, returned without error; and a transfer is
\* running only in the round the loop is at, so no round starts while a
\* transfer of the round before it is still running.
C12_BroadcastBarrier ==
    /\ \A i \in 1..Len(futures) :
          futures[i].src \in DestinationRows =>
              /\ issued[futures[i].src].state = "ok"
              /\ issued[futures[i].src].round < issued[futures[i].dst].round
    /\ \A d \in DestinationRows :
          /\ issued[d].round <= rounds
          /\ issued[d].state = "running" => (issued[d].round = rounds /\ bpc = "wait")
          /\ (0 < issued[d].round /\ issued[d].round < rounds) => issued[d].state = "ok"

\* third round under way: a transfer is running whose source is a destination
\* that was served in an earlier round
C12_Witness ==
    /\ bpc = "wait"
    /\ rounds = 3
    /\ \E i \in 1..Len(futures) :
          /\ futures[i].state = "running"
          /\ futures[i].src \in DestinationRows
          /\ issued[futures[i].src].state = "ok"

(***************************************************************************)
(*                       Claims on Server, continued                       *)
(***************************************************************************)

Position(s, e) == CHOOSE i \in 1..Len(s) : s[i] = e

Has(s, e) == \E i \in 1..Len(s) : s[i] = e

\* C14: the handler of a kill request writes the success response to its
\* connection first and only afterwards stops the server from accepting:
\* server.close() never comes before the write of the kill response.
C14_KillResponseBeforeClose ==
    \A c \in DOMAIN log :
        Has(log[c], "server.close") =>
            /\ Has(log[c], "writer.write")
            /\ Position(log[c], "writer.write") < Position(log[c], "server.close")

Count(s, e) == Cardinality({i \in 1..Len(s) : s[i] = e})

\* C19: the server is stopped only by an executed kill command, and every
\* connection whose request was handled carried one request, received exactly
\* one response and was then closed by the handler.
C19_OneRequestOneResponse ==
    /\ server = "closed" => \E c \in DOMAIN executed : executed[c] = "kill"
    /\ \A c \in DOMAIN conn :
          Handled(c) =>
              /\ req[c] /= NoReq
              /\ Count(log[c], "writer.write") = 1
              /\ resp[c] /= NoResponse
              /\ Has(log[c], "writer.close")

(***************************************************************************)
(*                   Claims on scatter_file / gather_file                  *)
(***************************************************************************)

\* the calls of kind op in a history that are aimed at dst
CallsTo(calls, op, dst) == {j \in 1..Len(calls) : calls[j].op = op /\ calls[j].dst = dst}

Running(calls) == {j \in 1..Len(calls) : calls[j].state = "running"}

\* C20: scatter_file with k source rows sends every destination k appended
\* deliveries of its interval, one per source row; after a successful run on
\* empty destination files each line of [from, to) is in the destination file
\* exactly k times (and, the interval not being empty, nothing else is); the
\* transfers running at any moment are all aimed at the destination the loop
\* is at, so transfers to different destinations never overlap.
C20_ScatterFileDeliveries ==
    /\ \A j \in Running(scalls) :
          /\ spc = "wait"
          /\ scalls[j].op = "send"
          /\ scalls[j].dst = fdst
    /\ spc = "done" =>
          \A d \in 1..Len(rows) :
              /\ \A i \in 1..fNSrc :
                    Cardinality({j \in CallsTo(scalls, "send", d) :
                                    scalls[j].src = i /\ scalls[j].state = "ok"}) = 1
              /\ Cardinality(CallsTo(scalls, "send", d)) = fNSrc
              /\ \A l \in (rows[d].from + 1)..rows[d].to :
                    Count(dfile[d], File[l]) = fNSrc
              /\ rows[d].from < rows[d].to =>
                    Len(dfile[d]) = fNSrc * (rows[d].to - rows[d].from)

\* two sources, two destinations, the second one given both lines: it holds
\* each of them twice
C20_Witness ==
    /\ spc = "done"
    /\ fNSrc = 2
    /\ Len(rows) = 2
    /\ rows[2] = [from |-> 0, to |-> 2]
    /\ Count(dfile[2], 1) = 2
    /\ Count(dfile[2], 2) = 2
    /\ Cardinality(CallsTo(scalls, "send", 1)) = 2

\* the calls of kind op of a history, in the order they were issued
RECURSIVE Select(_, _)
Select(calls, op) ==
    IF calls = <<>> THEN <<>>
    ELSE IF Head(calls).op = op
           THEN <<Head(calls)>> \o Select(Tail(calls), op)
           ELSE Select(Tail(calls), op)

\* C15: every failed operation of a run is fatal, the auxiliary ones included:
\* after a failed call no call of a later step is issued and the run does not
\* end successfully.  (A failed transfer of a scatter round leaves the other
\* transfers of its round running.)
C15_FailedOperationIsFatal ==
    /\ \A j \in 1..Len(scalls) :
          scalls[j].state = "error" =>
              /\ spc \in {"wait", "failed"}
              /\ \A k \in 1..Len(scalls) : scalls[k].dst <= scalls[j].dst
    /\ \A j \in 1..Len(gcalls) :
          gcalls[j].state = "error" =>
              /\ j = Len(gcalls)
              /\ gpc /= "done"

\* C16: gather_file issues its transfers one at a time, in row order, the one
\* for row j only after the one for row j - 1 succeeded, none after a failed
\* one; after a successful run the target is the concatenation of the
\* destinations' files in row order.
C16_GatherFileSequential ==
    LET sends == Select(gcalls, "send") IN
    /\ Cardinality(Running(gcalls)) <= 1
    /\ \A k \in 1..Len(sends) :
          /\ sends[k].src = k
          /\ k < Len(sends) => sends[k].state = "ok"
    /\ (gpc = "done" /\ targetIsFile) =>
          /\ Len(sends) = Len(rows)
          /\ target = ConcatFiles(dfile, Len(rows))

\* C17: whatever the target held, a successful gather_file leaves it equal to
\* the concatenation of the destination files only, and a second gather_file
\* on that result leaves it as it is.
C17_GatherFileIdempotent ==
    (gpc = "done" /\ targetIsFile) =>
        /\ target = GatherFileResult(<<>>, dfile, TRUE)
        /\ \A rmok \in BOOLEAN : GatherFileResult(target, dfile, rmok) = target

(***************************************************************************)
(*                        Claims on scatter_folder                         *)
(***************************************************************************)

\* C18: scatter_folder takes the destinations in consecutive batches of
\* len(sources) rows: the i-th row of a batch is paired with the i-th source
\* row, no source serves two transfers of a batch, a destination is the
\* target of one transfer only (exactly one once the run has succeeded), that
\* transfer carries listing[from:to] of the sorted listing, and a batch is
\* submitted only when every transfer of the batches before it has ended.
C18_ScatterFolderBatches ==
    LET copies == Select(dscalls, "rsync") IN
    /\ \A k \in 1..Len(copies) :
          LET c == copies[k] IN
          /\ c.dst = k
          /\ c.src \in 1..dNSrc
          /\ c.batch % dNSrc = 0
          /\ c.dst = c.batch + c.src
          /\ \A a, b \in 1..Len(all_files) : a < b => all_files[a] < all_files[b]
          /\ Range(all_files) = Tree
          /\ c.files = SubSeq(all_files, drows[k].from + 1, Min(drows[k].to, Len(all_files)))
          /\ \A m \in 1..Len(copies) :
                /\ (m /= k /\ copies[m].batch = c.batch) => copies[m].src /= c.src
                /\ copies[m].batch < c.batch => copies[m].state /= "running"
          /\ c.state = "running" => c.batch = destinations_offset
    /\ dspc = "done" =>
          /\ Len(copies) = Len(drows)
          /\ \A d \in 1..Len(drows) : Cardinality(CallsTo(dscalls, "rsync", d)) = 1

\* one source and two destinations: the second batch is under way, after the
\* first one has ended
C18_Witness ==
    /\ dspc = "wait"
    /\ dNSrc = 1
    /\ destinations_offset = 1
    /\ \E j \in 1..Len(dscalls) :
          /\ dscalls[j].op = "rsync"
          /\ dscalls[j].dst = 2
          /\ dscalls[j].src = 1
          /\ dscalls[j].state = "running"
    /\ \E j \in 1..Len(dscalls) :
          /\ dscalls[j].op = "rsync"
          /\ dscalls[j].dst = 1
          /\ dscalls[j].state = "ok"

(***************************************************************************)
(*              Claims on broadcast, scatter and gather together           *)
(***************************************************************************)

Errors(calls) == {j \in 1..Len(calls) : calls[j].state = "error"}

\* C11: the shape of the configuration is checked before any remote command:
\* broadcast and scatter end in an error exactly when there is no source row
\* or no destination row, gather exactly when the source rows are not one or
\* there is no destination row, and up to and including that error no
\* transfer, listing, existence check or removal has been issued.
C11_ConfigCheckedFirst ==
    /\ bpc \notin {"idle", "start"} => (bpc = "cfgerror" <=> (bNSrc < 1 \/ bNDst < 1))
    /\ bpc \in {"start", "cfgerror"} =>
          /\ futures = <<>>
          /\ rounds = 0
          /\ \A d \in DOMAIN issued : issued[d].state = "none"
          /\ \A r \in DOMAIN content : r > bNSrc => content[r] = NoCopy
    /\ spc \notin {"idle", "start"} => (spc = "cfgerror" <=> (fNSrc < 1 \/ Len(rows) < 1))
    /\ spc \in {"start", "cfgerror"} => (scalls = <<>> /\ \A d \in DOMAIN dfile : dfile[d] = <<>>)
    /\ gpc /= "idle" => (gpc = "cfgerror" <=> (gNSrc /= 1 \/ Len(rows) < 1))
    /\ gpc \in {"idle", "cfgerror"} => (gcalls = <<>> /\ removed = "notrun")
    /\ dspc \notin {"idle", "start"} => (dspc = "cfgerror" <=> (dNSrc < 1 \/ Len(drows) < 1))
    /\ dspc \in {"start", "cfgerror"} =>
          (dscalls = <<>> /\ all_files = <<>> /\ \A d \in DOMAIN dtree : dtree[d] = {})
    /\ dgpc /= "idle" => (dgpc = "cfgerror" <=> (dgNSrc /= 1 \/ Len(drows) < 1))
    /\ dgpc \in {"idle", "cfgerror"} => (dgcalls = <<>> /\ ttree = ttree0)

\* gather on a configuration with two source rows and a destination row, after
\* a scatter that succeeded: the error, and nothing has been issued
C11_Witness ==
    /\ spc = "done"
    /\ gpc = "cfgerror"
    /\ gNSrc = 2
    /\ Len(rows) >= 1
    /\ targetIsFile
    /\ gcalls = <<>>

\* C13: in broadcast, scatter_folder and scatter_file a failed operation of a
\* round lets the round's other operations end, then the run ends in an error:
\* a failure is always of the round the loop is at, the run never goes on to
\* another round or to a successful end with it, and what earlier rounds
\* copied stays where it is.
C13_FailFastPerRound ==
    /\ \A d \in DOMAIN issued :
          /\ issued[d].state = "error" => (bpc \in {"wait", "failed"} /\ issued[d].round = rounds)
          /\ issued[d].round <= rounds
          /\ issued[d].state = "ok" => content[d] \in 1..bNSrc
    /\ bpc = "failed" =>
          /\ \E d \in DOMAIN issued : issued[d].state = "error"
          /\ \A d \in DOMAIN issued : issued[d].state /= "running"
    /\ \A j \in Errors(scalls) :
          /\ spc \in {"wait", "failed"}
          /\ scalls[j].dst = fdst
          /\ \A k \in 1..Len(scalls) : scalls[k].dst <= fdst
    /\ spc = "failed" => (Errors(scalls) /= {} /\ Running(scalls) = {})
    /\ \A d \in 1..Len(rows) :
          rows[d].to /= None =>
              Len(dfile[d]) =
                  Cardinality({j \in CallsTo(scalls, "send", d) : scalls[j].state = "ok"})
                     * Len(SendLines(File, rows[d].from, rows[d].to))
    /\ \A j \in Errors(dscalls) :
          /\ dspc \in {"wait", "failed", "raised"}
          /\ dscalls[j].op = "find" => j = Len(dscalls)
          /\ dscalls[j].op = "rsync" =>
                /\ dscalls[j].batch = destinations_offset
                /\ \A k \in 1..Len(dscalls) :
                      dscalls[k].op = "rsync" => dscalls[k].batch <= destinations_offset
    /\ dspc = "failed" => (Errors(dscalls) /= {} /\ Running(dscalls) = {})
    /\ \A j \in 1..Len(dscalls) :
          (dscalls[j].op = "rsync" /\ dscalls[j].state = "ok") =>
              Range(dscalls[j].files) \subseteq dtree[dscalls[j].dst]

\* scatter_folder with one source: the first batch was copied, the transfer of
\* the second batch failed, the run has ended in an error and the first
\* destination still holds its files
C13_Witness ==
    /\ dspc = "failed"
    /\ dNSrc = 1
    /\ destinations_offset = 1
    /\ Len(drows) = 2
    /\ dtree[1] = Tree
    /\ \E j \in Errors(dscalls) : dscalls[j].op = "rsync" /\ dscalls[j].dst = 2

=============================================================================
